---- MODULE Spec2Model ----
\* Provider configuration and service-client factory of the HuaweiCloud
\* Terraform provider (huaweicloud/config.go, huaweicloud/provider.go):
\* configureProvider -> LoadAndValidate -> buildClientBy* -> genClients ->
\* genClient (x2) -> newS3Session, then concurrent NewServiceClient calls that
\* resolve region -> project ID through the RPLock-guarded RegionProjectIDMap.
EXTENDS Integers, Sequences, FiniteSets, TLC

\* ---------------------------------------------------------------- bounds

\* Goroutines calling NewServiceClient on the one configuration object.
NumThreads == 2
\* NewServiceClient calls started over the lifetime of the configuration object.
MaxCalls == 2
\* Projects in one identity project-listing response.
MaxProjects == 1

\* ---------------------------------------------------------------- values

\* The nil error / absent handle, and the nil pointer to a struct.
Nil == "nil"
NilPtr == [nil |-> TRUE]
\* RPLock when no goroutine holds it.
Unlocked == 0

\* A string option is either empty or set; one set value per option suffices,
\* the code only compares them with "".
StrOpt(v) == {"", v}

\* Region names: the provider-level region and one other region.
ProviderRegion == "r1"
Regions == {"r1", "r2"}
\* Project IDs the identity service hands out.
ProjectIDs == {"p1", "p2"}
CloudSuffix == "myhuaweicloud.com"

Threads == 1..NumThreads

\* Setup errors (the values LoadAndValidate can return).
ErrMaxRetries == "max_retries should be a positive value"
ErrNoAuth == "Must config token or aksk or username password to be authorized"
ErrPasswordUser == "password: one of user_name, user_id must be specified"
ErrNewClient == "NewClient failed"
ErrReadCACert == "Error reading CA Cert"
ErrReadClientCert == "Error reading Client Cert"
ErrReadClientKey == "Error reading Client Key"
ErrKeyPair == "tls: X509KeyPair failed"
ErrAuthProject == "project-scope authentication failed"
ErrAuthDomain == "domain-scope authentication failed"
ErrS3 == "S3 credentials or session failed"

\* NewServiceClient errors.
ErrService == "must specify the service name and api version"
ErrRegion == "Resource-level region must be the same as Provider-level region when using non AK/SK authentication if Resource-level region set"
\* What the identity calls themselves fail with: projects.List(...).AllPages()
\* and projects.ExtractProjects.
ErrTransport == "connection refused"
ErrBody == "unexpected end of JSON input"

\* ListProjectsFailed handing the identity error on as it is.
ListProjectsFailed_Bare(e) == e

\* fmt.Errorf("List projects failed, err=%s", err): a new error value.
ListProjectsFailed(e) == "List projects failed, err=" \o e

\* fmt.Errorf("Extract projects failed, err=%s", err)
ExtractProjectsFailed(e) == "Extract projects failed, err=" \o e

ErrListProjects == ListProjectsFailed(ErrTransport)
ErrExtractProjects == ExtractProjectsFailed(ErrBody)
ErrNoProject == "Wrong name or no access to the region"

\* ---------------------------------------------------------------- catalog

\* The zero value of ServiceCatalog: what a map lookup of an absent name yields.
ZeroCatalog ==
    [Name |-> "", Version |-> "", Scope |-> "", Admin |-> FALSE,
     WithOutProjectID |-> FALSE, ResourceBase |-> ""]

\* Logical service names used by the callers: a regional service, the
\* admin-scoped global identity service, and a name absent from the table.
Services == {"ecs", "iam", "nosuch"}

allServiceCatalog(srv) ==
    CASE srv = "ecs" -> [ZeroCatalog EXCEPT !.Name = "ecs", !.Version = "v1"]
      [] srv = "iam" -> [ZeroCatalog EXCEPT !.Name = "iam", !.Version = "v3.0",
                                            !.Scope = "global", !.Admin = TRUE,
                                            !.WithOutProjectID = TRUE]
      [] OTHER -> ZeroCatalog

\* ---------------------------------------------------------------- state

VARIABLES
    c,                   \* Config: the option fields, fixed after construction
    HwClient,            \* Config.HwClient: NilPtr or the project-scoped client
    DomainClient,        \* Config.DomainClient: NilPtr or the domain-scoped client
    s3sess,              \* Config.s3sess: Nil or the S3 session
    RegionProjectIDMap,  \* Config.RegionProjectIDMap: region name -> project ID
    RPLock,              \* Config.RPLock: Unlocked when free, else the holding thread
    pc,                  \* where configureProvider stands
    builder,             \* the buildClientBy* functions LoadAndValidate has invoked
    netlog,              \* network calls made during setup, in order
    err,                 \* the error configureProvider returned, or Nil
    handle,              \* the configuration handle configureProvider returned, or Nil
    tpc,                 \* per thread: where its NewServiceClient call stands
    targ,                \* per thread: the (srv, region) of its current/last call
    last,                \* the most recent NewServiceClient return: who, what, result
    queries,             \* per region: identity project-listing queries issued
    ncalls,              \* NewServiceClient calls started so far
    crashed,             \* a nil base client was dereferenced (process panic)
    render,              \* the arguments and result of the last client rendering
    authOptions,         \* the (pao, dao) option sets handed to genClients
    unreadable           \* the configured certificate/key paths that cannot be read

vars == <<c, HwClient, DomainClient, s3sess, RegionProjectIDMap, RPLock, pc,
          builder, netlog, err, handle, tpc, targ, last, queries, ncalls, crashed,
          render, authOptions, unreadable>>

setupVars == <<HwClient, DomainClient, s3sess, pc, builder, netlog, err, handle,
               authOptions, unreadable>>
threadVars == <<tpc, targ, last, queries, ncalls, RPLock, crashed>>

\* ---------------------------------------------------------------- setup

\* max_retries values: the code only compares the option with 0.
RetryValues == {-1, 0, 1}

\* The Config literal of configureProvider, before LoadAndValidate: every
\* combination of the credential options being empty or set.
Configs ==
    [Token : StrOpt("tok"), AccessKey : StrOpt("ak"), SecretKey : StrOpt("sk"),
     Password : StrOpt("pw"), Username : StrOpt("user"), UserID : StrOpt("uid"),
     MaxRetries : RetryValues, Region : {ProviderRegion},
     Cloud : {CloudSuffix}, RegionClient : {FALSE},
     DomainID : {"did"}, DomainName : {"dname"},
     TenantID : {"tid"}, TenantName : {"tname"},
     IdentityEndpoint : {"auth_url"},
     AgencyName : {""}, AgencyDomainName : {""}, DelegatedProject : {"dproj"},
     CACertFile : StrOpt("ca.pem"), ClientCertFile : {""}, ClientKeyFile : {""}]

\* The configurations followed through to the service-client phase: the
\* options that phase reads (AccessKey, SecretKey) and the ones that decide
\* the strategy, without the combinations setup treats alike.
ServiceConfigs ==
    {cf \in Configs : cf.Username = "user" /\ cf.UserID = "" /\ cf.MaxRetries \in {-1, 0}
                        /\ cf.CACertFile = ""}

NoArg == [srv |-> "", region |-> ""]
NoResult == [t |-> 0, srv |-> "", region |-> "", err |-> Nil, sc |-> NilPtr, resp |-> NilPtr]
\* The certificate material paths a configuration names.
ConfiguredPaths(cf) == {cf.CACertFile, cf.ClientCertFile, cf.ClientKeyFile} \ {""}

NoAuthOptions == [pao |-> NilPtr, dao |-> NilPtr]
NoRender == [catalog |-> ZeroCatalog, region |-> "", projectID |-> "", sc |-> NilPtr]

InitState ==
    /\ HwClient = NilPtr
    /\ DomainClient = NilPtr
    /\ s3sess = Nil
    /\ RegionProjectIDMap = <<>>
    /\ RPLock = Unlocked
    /\ pc = "start"
    /\ builder = <<>>
    /\ netlog = <<>>
    /\ err = Nil
    /\ handle = Nil
    /\ tpc = [t \in Threads |-> "idle"]
    /\ targ = [t \in Threads |-> NoArg]
    /\ last = NoResult
    /\ queries = [r \in Regions |-> 0]
    /\ ncalls = 0
    /\ crashed = FALSE
    /\ render = NoRender
    /\ authOptions = NoAuthOptions
    /\ unreadable \in SUBSET ConfiguredPaths(c)

Init == c \in ServiceConfigs /\ InitState

SetupInit == c \in Configs /\ InitState

\* SelectStrategy with the password branch tested ahead of the key pair.
SelectStrategy_PasswordFirst(cf) ==
    IF cf.Token # "" THEN "token"
    ELSE IF cf.Password # "" THEN
        IF cf.Username = "" /\ cf.UserID = "" THEN "password_nouser" ELSE "password"
    ELSE IF cf.AccessKey # "" /\ cf.SecretKey # "" THEN "aksk"
    ELSE "none"

\* SelectStrategy taking the key-pair branch when either key is set.
SelectStrategy_EitherKey(cf) ==
    IF cf.Token # "" THEN "token"
    ELSE IF cf.AccessKey # "" \/ cf.SecretKey # "" THEN "aksk"
    ELSE IF cf.Password # "" THEN
        IF cf.Username = "" /\ cf.UserID = "" THEN "password_nouser" ELSE "password"
    ELSE "none"

\* SelectStrategy without the user_name/user_id check of the password branch.
SelectStrategy_NoUserCheck(cf) ==
    IF cf.Token # "" THEN "token"
    ELSE IF cf.AccessKey # "" /\ cf.SecretKey # "" THEN "aksk"
    ELSE IF cf.Password # "" THEN "password"
    ELSE "none"

\* Which strategy the if/else-if chain of LoadAndValidate takes:
\* "token", "aksk", "password", "password_nouser" or "none".
SelectStrategy(cf) ==
    IF cf.Token # "" THEN "token"
    ELSE IF cf.AccessKey # "" /\ cf.SecretKey # "" THEN "aksk"
    ELSE IF cf.Password # "" THEN
        IF cf.Username = "" /\ cf.UserID = "" THEN "password_nouser" ELSE "password"
    ELSE "none"

\* FailSetup handing the half-built configuration back along with the error.
FailSetup_KeepHandle(e) ==
    /\ pc' = "failed"
    /\ err' = e
    /\ handle' = "config"

\* configureProvider fails: it returns (nil, e).
FailSetup(e) ==
    /\ pc' = "failed"
    /\ err' = e
    /\ handle' = Nil

\* MaxRetriesInvalid off by one: -1 passes.
MaxRetriesInvalid_OffByOne(cf) == cf.MaxRetries < -1

\* The first check of LoadAndValidate.
MaxRetriesInvalid(cf) == cf.MaxRetries < 0

\* The zero values of golangsdk.AuthOptions and golangsdk.AKSKAuthOptions,
\* over the fields the builders assign.
ZeroAuthOptions ==
    [IdentityEndpoint |-> "", TokenID |-> "", Password |-> "", Username |-> "",
     UserID |-> "", DomainID |-> "", DomainName |-> "", TenantID |-> "",
     TenantName |-> "", AgencyName |-> "", AgencyDomainName |-> "",
     DelegatedProject |-> ""]
ZeroAKSKAuthOptions ==
    [IdentityEndpoint |-> "", AccessKey |-> "", SecretKey |-> "", DomainID |-> "",
     Domain |-> "", BssDomainID |-> "", BssDomain |-> "", ProjectName |-> "",
     ProjectId |-> "", AgencyName |-> "", AgencyDomainName |-> "",
     DelegatedProject |-> ""]

\* UseAgency taking the agency branch when either field is set.
UseAgency_EitherField(cf) == cf.AgencyDomainName # "" \/ cf.AgencyName # ""

\* The condition the three builders share.
UseAgency(cf) == cf.AgencyDomainName # "" /\ cf.AgencyName # ""

buildClientByToken(cf) ==
    LET pao == IF UseAgency(cf)
               THEN [ZeroAuthOptions EXCEPT !.AgencyName = cf.AgencyName,
                                            !.AgencyDomainName = cf.AgencyDomainName,
                                            !.DelegatedProject = cf.DelegatedProject]
               ELSE [ZeroAuthOptions EXCEPT !.DomainID = cf.DomainID,
                                            !.DomainName = cf.DomainName,
                                            !.TenantID = cf.TenantID,
                                            !.TenantName = cf.TenantName]
        dao == IF UseAgency(cf)
               THEN [ZeroAuthOptions EXCEPT !.AgencyName = cf.AgencyName,
                                            !.AgencyDomainName = cf.AgencyDomainName]
               ELSE [ZeroAuthOptions EXCEPT !.DomainID = cf.DomainID,
                                            !.DomainName = cf.DomainName]
    IN [pao |-> [pao EXCEPT !.IdentityEndpoint = cf.IdentityEndpoint,
                            !.TokenID = cf.Token],
        dao |-> [dao EXCEPT !.IdentityEndpoint = cf.IdentityEndpoint,
                            !.TokenID = cf.Token]]

buildClientByAKSK(cf) ==
    LET pao == IF UseAgency(cf)
               THEN [ZeroAKSKAuthOptions EXCEPT !.DomainID = cf.DomainID,
                                                !.Domain = cf.DomainName,
                                                !.AgencyName = cf.AgencyName,
                                                !.AgencyDomainName = cf.AgencyDomainName,
                                                !.DelegatedProject = cf.DelegatedProject]
               ELSE [ZeroAKSKAuthOptions EXCEPT !.BssDomainID = cf.DomainID,
                                                !.BssDomain = cf.DomainName,
                                                !.ProjectName = cf.TenantName,
                                                !.ProjectId = cf.TenantID]
        dao == IF UseAgency(cf)
               THEN [ZeroAKSKAuthOptions EXCEPT !.DomainID = cf.DomainID,
                                                !.Domain = cf.DomainName,
                                                !.AgencyName = cf.AgencyName,
                                                !.AgencyDomainName = cf.AgencyDomainName]
               ELSE [ZeroAKSKAuthOptions EXCEPT !.DomainID = cf.DomainID,
                                                !.Domain = cf.DomainName]
    IN [pao |-> [pao EXCEPT !.IdentityEndpoint = cf.IdentityEndpoint,
                            !.AccessKey = cf.AccessKey,
                            !.SecretKey = cf.SecretKey],
        dao |-> [dao EXCEPT !.IdentityEndpoint = cf.IdentityEndpoint,
                            !.AccessKey = cf.AccessKey,
                            !.SecretKey = cf.SecretKey]]

buildClientByPassword(cf) ==
    LET pao == IF UseAgency(cf)
               THEN [ZeroAuthOptions EXCEPT !.DomainID = cf.DomainID,
                                            !.DomainName = cf.DomainName,
                                            !.AgencyName = cf.AgencyName,
                                            !.AgencyDomainName = cf.AgencyDomainName,
                                            !.DelegatedProject = cf.DelegatedProject]
               ELSE [ZeroAuthOptions EXCEPT !.DomainID = cf.DomainID,
                                            !.DomainName = cf.DomainName,
                                            !.TenantID = cf.TenantID,
                                            !.TenantName = cf.TenantName]
        dao == IF UseAgency(cf)
               THEN [ZeroAuthOptions EXCEPT !.DomainID = cf.DomainID,
                                            !.DomainName = cf.DomainName,
                                            !.AgencyName = cf.AgencyName,
                                            !.AgencyDomainName = cf.AgencyDomainName]
               ELSE [ZeroAuthOptions EXCEPT !.DomainID = cf.DomainID,
                                            !.DomainName = cf.DomainName]
    IN [pao |-> [pao EXCEPT !.IdentityEndpoint = cf.IdentityEndpoint,
                            !.Password = cf.Password,
                            !.Username = cf.Username,
                            !.UserID = cf.UserID],
        dao |-> [dao EXCEPT !.IdentityEndpoint = cf.IdentityEndpoint,
                            !.Password = cf.Password,
                            !.Username = cf.Username,
                            !.UserID = cf.UserID]]

\* The option sets the builder of strategy s hands to genClients.
BuildAuthOptions(s, cf) ==
    CASE s = "token" -> buildClientByToken(cf)
      [] s = "aksk" -> buildClientByAKSK(cf)
      [] OTHER -> buildClientByPassword(cf)

\* configureProvider up to the first genClient call: the Config literal is
\* built, LoadAndValidate checks MaxRetries and picks the strategy builder.
LoadAndValidate ==
    /\ pc = "start"
    /\ IF MaxRetriesInvalid(c) THEN
           /\ FailSetup(ErrMaxRetries)
           /\ UNCHANGED <<builder, authOptions>>
       ELSE LET s == SelectStrategy(c) IN
           CASE s = "none" -> FailSetup(ErrNoAuth) /\ UNCHANGED <<builder, authOptions>>
             [] s = "password_nouser" -> FailSetup(ErrPasswordUser) /\ UNCHANGED <<builder, authOptions>>
             [] OTHER ->
                  /\ builder' = Append(builder, s)
                  /\ authOptions' = BuildAuthOptions(s, c)
                  /\ pc' = "genClientProject"
                  /\ UNCHANGED <<err, handle>>
    /\ UNCHANGED <<c, HwClient, DomainClient, s3sess, netlog, RegionProjectIDMap>>
    /\ UNCHANGED threadVars
    /\ UNCHANGED <<render, unreadable>>

\* generateTLSConfig: the error it returns, Nil when it returns a tls.Config.
\* pairOK says whether the client certificate and key, once read, parse as
\* a pair.
generateTLSConfig(cf, unread, pairOK) ==
    IF cf.CACertFile # "" /\ cf.CACertFile \in unread THEN ErrReadCACert
    ELSE IF cf.ClientCertFile # "" /\ cf.ClientKeyFile # "" THEN
        IF cf.ClientCertFile \in unread THEN ErrReadClientCert
        ELSE IF cf.ClientKeyFile \in unread THEN ErrReadClientKey
        ELSE IF ~pairOK THEN ErrKeyPair
        ELSE Nil
    ELSE Nil

\* What one genClient call can come to: NewClient rejects the endpoint, the
\* TLS material cannot be used, Authenticate is called and fails, or succeeds.
GenClientOutcomes == {"newClientErr", "tlsErr", "authErr", "ok"}

\* GenClientOrder with Authenticate reachable whatever generateTLSConfig said.
GenClientOrder_AuthFirst(out, tls) == out = "tlsErr" => tls # Nil

\* The order of genClient: generateTLSConfig is called after NewClient and
\* before Authenticate, and its error (tls) returns at once.
GenClientOrder(out, tls) ==
    /\ out = "tlsErr" => tls # Nil
    /\ out \in {"authErr", "ok"} => tls = Nil

\* The project ID a project-scoped authentication leaves on the client:
\* none, or the ID of the project the credentials are scoped to.
AuthProjectIDs == {"", "p1"}

\* The authenticated provider client genClient returns. The project ID is
\* whatever the identity service scoped the credentials to.
NewProviderClient(scope, projectID) ==
    [Scope |-> scope,
     ProjectID |-> projectID,
     AKSKAuthOptions |->
        [AccessKey |-> IF builder = <<"aksk">> THEN c.AccessKey ELSE "",
         ProjectId |-> "", Region |-> ""]]

\* GenClientProject going on to the domain-scoped client after a failed
\* project-scoped authentication.
GenClientProject_ContinueOnError ==
    /\ pc = "genClientProject"
    /\ \E out \in GenClientOutcomes, pid \in AuthProjectIDs, pairOK \in BOOLEAN :
        /\ GenClientOrder(out, generateTLSConfig(c, unreadable, pairOK))
        /\ netlog' = IF out \in {"authErr", "ok"}
                     THEN Append(netlog, "authProject") ELSE netlog
        /\ CASE out = "newClientErr" -> FailSetup(ErrNewClient) /\ UNCHANGED HwClient
             [] out = "tlsErr" -> FailSetup(generateTLSConfig(c, unreadable, pairOK)) /\ UNCHANGED HwClient
             [] out = "authErr" ->
                  /\ pc' = "genClientDomain"
                  /\ UNCHANGED <<HwClient, err, handle>>
             [] OTHER ->
                  /\ HwClient' = NewProviderClient("project", pid)
                  /\ pc' = "genClientDomain"
                  /\ UNCHANGED <<err, handle>>
    /\ UNCHANGED <<c, DomainClient, s3sess, builder, RegionProjectIDMap>>
    /\ UNCHANGED threadVars
    /\ UNCHANGED <<render, authOptions, unreadable>>

\* genClients, first half: genClient(c, pao); an error returns at once.
GenClientProject ==
    /\ pc = "genClientProject"
    /\ \E out \in GenClientOutcomes, pid \in AuthProjectIDs, pairOK \in BOOLEAN :
        /\ GenClientOrder(out, generateTLSConfig(c, unreadable, pairOK))
        /\ netlog' = IF out \in {"authErr", "ok"}
                     THEN Append(netlog, "authProject") ELSE netlog
        /\ CASE out = "newClientErr" -> FailSetup(ErrNewClient) /\ UNCHANGED HwClient
             [] out = "tlsErr" -> FailSetup(generateTLSConfig(c, unreadable, pairOK)) /\ UNCHANGED HwClient
             [] out = "authErr" -> FailSetup(ErrAuthProject) /\ UNCHANGED HwClient
             [] OTHER ->
                  /\ HwClient' = NewProviderClient("project", pid)
                  /\ pc' = "genClientDomain"
                  /\ UNCHANGED <<err, handle>>
    /\ UNCHANGED <<c, DomainClient, s3sess, builder, RegionProjectIDMap>>
    /\ UNCHANGED threadVars
    /\ UNCHANGED <<render, authOptions, unreadable>>

\* GenClientDomain swallowing a failed domain-scoped authentication.
GenClientDomain_Tolerant ==
    /\ pc = "genClientDomain"
    /\ \E out \in GenClientOutcomes, pairOK \in BOOLEAN :
        /\ GenClientOrder(out, generateTLSConfig(c, unreadable, pairOK))
        /\ netlog' = IF out \in {"authErr", "ok"}
                     THEN Append(netlog, "authDomain") ELSE netlog
        /\ CASE out = "newClientErr" -> FailSetup(ErrNewClient) /\ UNCHANGED DomainClient
             [] out = "tlsErr" -> FailSetup(generateTLSConfig(c, unreadable, pairOK)) /\ UNCHANGED DomainClient
             [] out = "authErr" ->
                  /\ pc' = "newS3Session"
                  /\ UNCHANGED <<DomainClient, err, handle>>
             [] OTHER ->
                  /\ DomainClient' = NewProviderClient("domain", "")
                  /\ pc' = "newS3Session"
                  /\ UNCHANGED <<err, handle>>
    /\ UNCHANGED <<c, HwClient, s3sess, builder, RegionProjectIDMap>>
    /\ UNCHANGED threadVars
    /\ UNCHANGED <<render, authOptions, unreadable>>

\* genClients, second half: genClient(c, dao); DomainClient is set only on
\* success and the error of this call is what genClients returns.
GenClientDomain ==
    /\ pc = "genClientDomain"
    /\ \E out \in GenClientOutcomes, pairOK \in BOOLEAN :
        /\ GenClientOrder(out, generateTLSConfig(c, unreadable, pairOK))
        /\ netlog' = IF out \in {"authErr", "ok"}
                     THEN Append(netlog, "authDomain") ELSE netlog
        /\ CASE out = "newClientErr" -> FailSetup(ErrNewClient) /\ UNCHANGED DomainClient
             [] out = "tlsErr" -> FailSetup(generateTLSConfig(c, unreadable, pairOK)) /\ UNCHANGED DomainClient
             [] out = "authErr" -> FailSetup(ErrAuthDomain) /\ UNCHANGED DomainClient
             [] OTHER ->
                  /\ DomainClient' = NewProviderClient("domain", "")
                  /\ pc' = "newS3Session"
                  /\ UNCHANGED <<err, handle>>
    /\ UNCHANGED <<c, HwClient, s3sess, builder, RegionProjectIDMap>>
    /\ UNCHANGED threadVars
    /\ UNCHANGED <<render, authOptions, unreadable>>

\* newS3Session, the return of LoadAndValidate, and the rest of
\* configureProvider: the cache is seeded with the provider region when the
\* project-scoped client carries a project ID.
NewS3Session ==
    /\ pc = "newS3Session"
    /\ \E ok \in BOOLEAN :
        IF c.AccessKey # "" /\ c.SecretKey # "" /\ ~ok THEN
            /\ FailSetup(ErrS3)
            /\ UNCHANGED <<s3sess, RegionProjectIDMap>>
        ELSE
            /\ ok
            /\ s3sess' = IF c.AccessKey # "" /\ c.SecretKey # "" THEN "session" ELSE s3sess
            /\ RegionProjectIDMap' =
                 IF HwClient # NilPtr /\ HwClient.ProjectID # ""
                 THEN (c.Region :> HwClient.ProjectID) @@ RegionProjectIDMap
                 ELSE RegionProjectIDMap
            /\ pc' = "ready"
            /\ handle' = "config"
            /\ UNCHANGED err
    /\ UNCHANGED <<c, HwClient, DomainClient, builder, netlog>>
    /\ UNCHANGED threadVars
    /\ UNCHANGED <<render, authOptions, unreadable>>

\* ---------------------------------------------------------------- service clients

\* One project of a listing response, and the responses the identity service
\* can give to projects.List(...).AllPages() followed by ExtractProjects: a
\* transport/API error, a body that cannot be extracted, or a list of
\* projects. The code never compares a returned project's name with the
\* region it asked for, so the names are not constrained here either.
Projects == [Name : Regions, ID : ProjectIDs]
ProjectLists == UNION {[1..k -> Projects] : k \in 0..MaxProjects}
Responses ==
    {[err |-> ErrTransport, from |-> "AllPages", all |-> <<>>],
     [err |-> ErrBody, from |-> "ExtractProjects", all |-> <<>>]}
      \cup {[err |-> Nil, from |-> "", all |-> l] : l \in ProjectLists}

\* The base client NewServiceClient picks for a service.
BaseClient(srv) ==
    IF allServiceCatalog(srv).Admin THEN DomainClient ELSE HwClient

\* StoreProjects that leaves the map as it found it.
StoreProjects_NoStore(m, all) == m

\* The for loop of loadUserProjects: every returned item is stored under its
\* own name, later items overwriting earlier ones.
RECURSIVE StoreProjects(_, _)
StoreProjects(m, all) ==
    IF all = <<>> THEN m
    ELSE StoreProjects((Head(all).Name :> Head(all).ID) @@ m, Tail(all))

\* loadUserProjects rebuilding the map from the listing it received.
loadUserProjects_FreshMap(m, resp, region) ==
    IF resp.from = "AllPages" THEN [err |-> ListProjectsFailed(resp.err), map |-> m]
    ELSE IF resp.from = "ExtractProjects"
    THEN [err |-> ExtractProjectsFailed(resp.err), map |-> m]
    ELSE IF Len(resp.all) = 0 THEN [err |-> ErrNoProject, map |-> m]
    ELSE [err |-> Nil, map |-> StoreProjects(<<>>, resp.all)]

\* loadUserProjects remembering an empty listing as an empty project ID.
loadUserProjects_NegativeCache(m, resp, region) ==
    IF resp.from = "AllPages" THEN [err |-> ListProjectsFailed(resp.err), map |-> m]
    ELSE IF resp.from = "ExtractProjects"
    THEN [err |-> ExtractProjectsFailed(resp.err), map |-> m]
    ELSE IF Len(resp.all) = 0 THEN [err |-> ErrNoProject, map |-> (region :> "") @@ m]
    ELSE [err |-> Nil, map |-> StoreProjects(m, resp.all)]

\* loadUserProjects once the listing has answered: the error it returns and
\* the map it leaves.
loadUserProjects(m, resp, region) ==
    IF resp.from = "AllPages" THEN [err |-> ListProjectsFailed(resp.err), map |-> m]
    ELSE IF resp.from = "ExtractProjects"
    THEN [err |-> ExtractProjectsFailed(resp.err), map |-> m]
    ELSE IF Len(resp.all) = 0 THEN [err |-> ErrNoProject, map |-> m]
    ELSE [err |-> Nil, map |-> StoreProjects(m, resp.all)]

\* projectID, ok := c.RegionProjectIDMap[region]: the zero value when absent.
MapGet(m, region) == IF region \in DOMAIN m THEN m[region] ELSE ""

\* RenderEndpoint deciding on the scope alone.
RenderEndpoint_IgnoreRegionClient(catalog, region) ==
    IF catalog.Scope = "global"
    THEN <<"https://", catalog.Name, ".", c.Cloud, "/">>
    ELSE <<"https://", catalog.Name, ".", region, ".", c.Cloud, "/">>

\* Strings built by Sprintf and + are kept as sequences of their segments.
RenderEndpoint(catalog, region) ==
    IF catalog.Scope = "global" /\ ~c.RegionClient
    THEN <<"https://", catalog.Name, ".", c.Cloud, "/">>
    ELSE <<"https://", catalog.Name, ".", region, ".", c.Cloud, "/">>

\* RenderResourceBase appending the fixed suffix ahead of the project ID.
RenderResourceBase_SuffixFirst(endpoint, catalog, projectID) ==
    endpoint \o <<catalog.Version, "/">>
      \o (IF catalog.ResourceBase # "" THEN <<catalog.ResourceBase, "/">> ELSE <<>>)
      \o (IF ~catalog.WithOutProjectID THEN <<projectID, "/">> ELSE <<>>)

\* sc.ResourceBase: version, then project ID, then the fixed suffix.
RenderResourceBase(endpoint, catalog, projectID) ==
    endpoint \o <<catalog.Version, "/">>
      \o (IF ~catalog.WithOutProjectID THEN <<projectID, "/">> ELSE <<>>)
      \o (IF catalog.ResourceBase # "" THEN <<catalog.ResourceBase, "/">> ELSE <<>>)

\* The tail of newServiceClientByName: clone the base client, override the
\* project and region fields on the clone, render endpoint and resource base.
BuildServiceClient(client, catalog, region, projectID) ==
    LET clone == [client EXCEPT !.ProjectID = projectID,
                                !.AKSKAuthOptions.ProjectId = projectID,
                                !.AKSKAuthOptions.Region = region]
        endpoint == RenderEndpoint(catalog, region)
    IN [ProviderClient |-> clone,
        Endpoint |-> endpoint,
        ResourceBase |-> RenderResourceBase(endpoint, catalog, projectID)]

\* Thread t's call returns (sc, e) to its caller; resp is the listing answer
\* the call received, NilPtr when it sent no query.
Return(t, srv, region, e, sc, resp) ==
    /\ tpc' = [tpc EXCEPT ![t] = "idle"]
    /\ targ' = [targ EXCEPT ![t] = NoArg]
    /\ last' = [t |-> t, srv |-> srv, region |-> region,
                err |-> e, sc |-> sc, resp |-> resp]

\* CatalogInvalid with the check left out.
CatalogInvalid_Never(catalog) == FALSE

\* The catalog check of newServiceClientByName.
CatalogInvalid(catalog) == catalog.Name = "" \/ catalog.Version = ""

\* RegionMismatch without the AK/SK exemption.
RegionMismatch_NoKeyPairExemption(region) == region # c.Region

\* The region check of newServiceClientByName.
RegionMismatch(region) ==
    region # c.Region /\ (c.AccessKey = "" \/ c.SecretKey = "")

\* NewServiceClient testing the region ahead of the catalog entry.
NewServiceClient_RegionFirst(t) ==
    /\ pc = "ready" /\ handle # Nil /\ ~crashed
    /\ tpc[t] = "idle"
    /\ ncalls < MaxCalls
    /\ \E srv \in Services, region \in Regions :
        IF RegionMismatch(region) THEN
            Return(t, srv, region, ErrRegion, NilPtr, NilPtr)
        ELSE IF CatalogInvalid(allServiceCatalog(srv)) THEN
            Return(t, srv, region, ErrService, NilPtr, NilPtr)
        ELSE
            /\ targ' = [targ EXCEPT ![t] = [srv |-> srv, region |-> region]]
            /\ tpc' = [tpc EXCEPT ![t] = "lock"]
            /\ UNCHANGED last
    /\ ncalls' = ncalls + 1
    /\ UNCHANGED <<c, RegionProjectIDMap, RPLock, queries, crashed>>
    /\ UNCHANGED setupVars
    /\ UNCHANGED render

\* A resource handler calls NewServiceClient(srv, region) on the returned
\* configuration handle: base-client selection and the two validations, up to
\* c.RPLock.Lock().
NewServiceClient(t) ==
    /\ pc = "ready" /\ handle # Nil /\ ~crashed
    /\ tpc[t] = "idle"
    /\ ncalls < MaxCalls
    /\ \E srv \in Services, region \in Regions :
        IF CatalogInvalid(allServiceCatalog(srv)) THEN
            Return(t, srv, region, ErrService, NilPtr, NilPtr)
        ELSE IF RegionMismatch(region) THEN
            Return(t, srv, region, ErrRegion, NilPtr, NilPtr)
        ELSE
            /\ targ' = [targ EXCEPT ![t] = [srv |-> srv, region |-> region]]
            /\ tpc' = [tpc EXCEPT ![t] = "lock"]
            /\ UNCHANGED last
    /\ ncalls' = ncalls + 1
    /\ UNCHANGED <<c, RegionProjectIDMap, RPLock, queries, crashed>>
    /\ UNCHANGED setupVars
    /\ UNCHANGED render

\* RPLockLock reading the map for a cached region without waiting for the mutex.
RPLockLock_LockFreeHit(t) ==
    /\ ~crashed
    /\ tpc[t] = "lock"
    /\ RPLock = Unlocked \/ targ[t].region \in DOMAIN RegionProjectIDMap
    /\ LET srv == targ[t].srv
           region == targ[t].region
           client == BaseClient(srv)
       IN IF client = NilPtr THEN
              /\ crashed' = TRUE
              /\ UNCHANGED <<tpc, targ, last, queries, RPLock>>
          ELSE IF region \in DOMAIN RegionProjectIDMap THEN
              /\ Return(t, srv, region, Nil,
                        BuildServiceClient(client, allServiceCatalog(srv), region,
                                           RegionProjectIDMap[region]),
                        NilPtr)
              /\ UNCHANGED <<queries, RPLock, crashed>>
          ELSE
              /\ RPLock' = t
              /\ queries' = [queries EXCEPT ![region] = @ + 1]
              /\ tpc' = [tpc EXCEPT ![t] = "query"]
              /\ UNCHANGED <<targ, last, crashed>>
    /\ UNCHANGED <<c, RegionProjectIDMap, ncalls>>
    /\ UNCHANGED setupVars
    /\ UNCHANGED render

\* RPLockLock sending the listing without looking the region up first.
RPLockLock_NoLookup(t) ==
    /\ ~crashed
    /\ tpc[t] = "lock"
    /\ RPLock = Unlocked
    /\ LET srv == targ[t].srv
           region == targ[t].region
           client == BaseClient(srv)
       IN IF client = NilPtr THEN
              /\ crashed' = TRUE
              /\ UNCHANGED <<tpc, targ, last, queries, RPLock>>
          ELSE
              /\ RPLock' = t
              /\ queries' = [queries EXCEPT ![region] = @ + 1]
              /\ tpc' = [tpc EXCEPT ![t] = "query"]
              /\ UNCHANGED <<targ, last, crashed>>
    /\ UNCHANGED <<c, RegionProjectIDMap, ncalls>>
    /\ UNCHANGED setupVars
    /\ UNCHANGED render

\* RPLockLock returning although another goroutine holds the mutex.
RPLockLock_NoWait(t) ==
    /\ ~crashed
    /\ tpc[t] = "lock"
    /\ LET srv == targ[t].srv
           region == targ[t].region
           client == BaseClient(srv)
       IN IF client = NilPtr THEN
              /\ crashed' = TRUE
              /\ UNCHANGED <<tpc, targ, last, queries, RPLock>>
          ELSE IF region \in DOMAIN RegionProjectIDMap THEN
              /\ Return(t, srv, region, Nil,
                        BuildServiceClient(client, allServiceCatalog(srv), region,
                                           RegionProjectIDMap[region]),
                        NilPtr)
              /\ UNCHANGED <<queries, RPLock, crashed>>
          ELSE
              /\ RPLock' = t
              /\ queries' = [queries EXCEPT ![region] = @ + 1]
              /\ tpc' = [tpc EXCEPT ![t] = "query"]
              /\ UNCHANGED <<targ, last, crashed>>
    /\ UNCHANGED <<c, RegionProjectIDMap, ncalls>>
    /\ UNCHANGED setupVars
    /\ UNCHANGED render

\* RPLockLock going on to the lookup and the listing without taking the mutex.
RPLockLock_NoLock(t) ==
    /\ ~crashed
    /\ tpc[t] = "lock"
    /\ LET srv == targ[t].srv
           region == targ[t].region
           client == BaseClient(srv)
       IN IF client = NilPtr THEN
              /\ crashed' = TRUE
              /\ UNCHANGED <<tpc, targ, last, queries>>
          ELSE IF region \in DOMAIN RegionProjectIDMap THEN
              /\ Return(t, srv, region, Nil,
                        BuildServiceClient(client, allServiceCatalog(srv), region,
                                           RegionProjectIDMap[region]),
                        NilPtr)
              /\ UNCHANGED <<queries, crashed>>
          ELSE
              /\ queries' = [queries EXCEPT ![region] = @ + 1]
              /\ tpc' = [tpc EXCEPT ![t] = "query"]
              /\ UNCHANGED <<targ, last, crashed>>
    /\ UNCHANGED <<c, RegionProjectIDMap, RPLock, ncalls>>
    /\ UNCHANGED setupVars
    /\ UNCHANGED render

\* c.RPLock.Lock() returns (the mutex was free) and the map is looked up
\* under it. A hit builds the client, releases the lock (deferred Unlock) and
\* returns; a miss enters loadUserProjects and sends the project listing, the
\* lock staying held. Either path dereferences the base client.
RPLockLock(t) ==
    /\ ~crashed
    /\ tpc[t] = "lock"
    /\ RPLock = Unlocked
    /\ LET srv == targ[t].srv
           region == targ[t].region
           client == BaseClient(srv)
       IN IF client = NilPtr THEN
              /\ crashed' = TRUE
              /\ UNCHANGED <<tpc, targ, last, queries, RPLock>>
          ELSE IF region \in DOMAIN RegionProjectIDMap THEN
              /\ Return(t, srv, region, Nil,
                        BuildServiceClient(client, allServiceCatalog(srv), region,
                                           RegionProjectIDMap[region]),
                        NilPtr)
              /\ UNCHANGED <<queries, RPLock, crashed>>
          ELSE
              /\ RPLock' = t
              /\ queries' = [queries EXCEPT ![region] = @ + 1]
              /\ tpc' = [tpc EXCEPT ![t] = "query"]
              /\ UNCHANGED <<targ, last, crashed>>
    /\ UNCHANGED <<c, RegionProjectIDMap, ncalls>>
    /\ UNCHANGED setupVars
    /\ UNCHANGED render

\* ProjectsListReturn writing the overrides through the base client's pointer
\* (clone := client in place of *clone = *client).
ProjectsListReturn_SharedClone(t) ==
    /\ ~crashed
    /\ tpc[t] = "query"
    /\ \E resp \in Responses :
        LET srv == targ[t].srv
            region == targ[t].region
            r == loadUserProjects(RegionProjectIDMap, resp, region)
            sc == BuildServiceClient(BaseClient(srv), allServiceCatalog(srv),
                                     region, MapGet(r.map, region))
        IN /\ RegionProjectIDMap' = r.map
           /\ IF r.err # Nil THEN
                  /\ Return(t, srv, region, r.err, NilPtr, resp)
                  /\ UNCHANGED <<HwClient, DomainClient>>
              ELSE
                  /\ Return(t, srv, region, Nil, sc, resp)
                  /\ IF allServiceCatalog(srv).Admin
                     THEN DomainClient' = sc.ProviderClient /\ UNCHANGED HwClient
                     ELSE HwClient' = sc.ProviderClient /\ UNCHANGED DomainClient
    /\ RPLock' = Unlocked
    /\ UNCHANGED <<c, queries, ncalls, crashed>>
    /\ UNCHANGED <<s3sess, pc, builder, netlog, err, handle, authOptions, unreadable>>
    /\ UNCHANGED render

\* ProjectsListReturn unlocking only on the successful path.
ProjectsListReturn_LeakLock(t) ==
    /\ ~crashed
    /\ tpc[t] = "query"
    /\ \E resp \in Responses :
        LET srv == targ[t].srv
            region == targ[t].region
            r == loadUserProjects(RegionProjectIDMap, resp, region)
        IN /\ RegionProjectIDMap' = r.map
           /\ IF r.err # Nil THEN
                  /\ Return(t, srv, region, r.err, NilPtr, resp)
                  /\ UNCHANGED RPLock
              ELSE
                  /\ Return(t, srv, region, Nil,
                            BuildServiceClient(BaseClient(srv), allServiceCatalog(srv),
                                               region, MapGet(r.map, region)),
                            resp)
                  /\ RPLock' = Unlocked
    /\ UNCHANGED <<c, queries, ncalls, crashed>>
    /\ UNCHANGED setupVars
    /\ UNCHANGED render

\* The project listing answers: the rest of loadUserProjects and of
\* newServiceClientByName, through the deferred Unlock.
ProjectsListReturn(t) ==
    /\ ~crashed
    /\ tpc[t] = "query"
    /\ \E resp \in Responses :
        LET srv == targ[t].srv
            region == targ[t].region
            r == loadUserProjects(RegionProjectIDMap, resp, region)
        IN /\ RegionProjectIDMap' = r.map
           /\ IF r.err # Nil THEN
                  Return(t, srv, region, r.err, NilPtr, resp)
              ELSE
                  Return(t, srv, region, Nil,
                         BuildServiceClient(BaseClient(srv), allServiceCatalog(srv),
                                            region, MapGet(r.map, region)),
                         resp)
    /\ RPLock' = Unlocked
    /\ UNCHANGED <<c, queries, ncalls, crashed>>
    /\ UNCHANGED setupVars
    /\ UNCHANGED render

SetupNext ==
    \/ LoadAndValidate
    \/ GenClientProject
    \/ GenClientDomain
    \/ NewS3Session

\* configureProvider alone, over every configuration.
SetupSpec == SetupInit /\ [][SetupNext]_vars

\* configureProvider over every credential combination together with every
\* combination of the two agency options being empty or set.
AgencyConfigs ==
    {[cf EXCEPT !.AgencyName = a, !.AgencyDomainName = d] :
        cf \in {x \in Configs : x.MaxRetries = 0 /\ x.CACertFile = ""},
        a \in StrOpt("agency"), d \in StrOpt("agencydomain")}

AgencyInit == c \in AgencyConfigs /\ InitState

AgencySpec == AgencyInit /\ [][SetupNext]_vars

\* configureProvider over every combination of the three certificate options
\* being empty or set, each configured path readable or not.
TLSConfigs ==
    {[cf EXCEPT !.CACertFile = ca, !.ClientCertFile = cert, !.ClientKeyFile = key] :
        cf \in {x \in ServiceConfigs : x.MaxRetries = 0},
        ca \in StrOpt("ca.pem"), cert \in StrOpt("cert.pem"), key \in StrOpt("key.pem")}

TLSInit == c \in TLSConfigs /\ InitState

TLSSpec == TLSInit /\ [][SetupNext]_vars

Next ==
    \/ LoadAndValidate
    \/ GenClientProject
    \/ GenClientDomain
    \/ NewS3Session
    \/ \E t \in Threads : NewServiceClient(t)
    \/ \E t \in Threads : RPLockLock(t)
    \/ \E t \in Threads : ProjectsListReturn(t)

Spec == Init /\ [][Next]_vars

\* Spec with the scheduling the calls rely on: a listing that was sent
\* eventually answers (the HTTP client returns a response or an error), and
\* sync.Mutex hands the lock to a waiter that keeps finding it free.
FairSpec ==
    /\ Spec
    /\ \A t \in Threads : WF_vars(ProjectsListReturn(t))
    /\ \A t \in Threads : SF_vars(RPLockLock(t))

\* ---------------------------------------------------------------- answering identity service

\* The identity service answers every listing with the one project named
\* after the region asked for (the listing is filtered by Name: region).
AnsweredReturn(t) ==
    /\ ProjectsListReturn(t)
    /\ last'.resp.err = Nil
    /\ Len(last'.resp.all) = 1
    /\ last'.resp.all[1].Name = last'.region

AnsweredNext ==
    \/ LoadAndValidate
    \/ GenClientProject
    \/ GenClientDomain
    \/ NewS3Session
    \/ \E t \in Threads : NewServiceClient(t)
    \/ \E t \in Threads : RPLockLock(t)
    \/ \E t \in Threads : AnsweredReturn(t)

AnsweredSpec == Init /\ [][AnsweredNext]_vars

\* ---------------------------------------------------------------- rendering

\* newServiceClientByName takes the catalog entry as a parameter. Its tail,
\* from the clone to the resource base, is followed here over every shape of
\* entry, with Config.RegionClient both off (what configureProvider leaves)
\* and on (set by a caller that fills the exported field).
RenderConfigs ==
    {[cf EXCEPT !.RegionClient = b] :
        cf \in {x \in ServiceConfigs : x.Token = "" /\ x.Password = ""
                                         /\ x.AccessKey # "" /\ x.SecretKey # ""
                                         /\ x.MaxRetries = 0},
        b \in BOOLEAN}

RenderCatalogs ==
    [Name : {"ecs", "vpc"}, Version : {"v1"}, Scope : {"", "global"},
     Admin : {FALSE}, WithOutProjectID : BOOLEAN,
     ResourceBase : {"", "os-keypairs"}]

RenderInit == c \in RenderConfigs /\ InitState

RenderServiceClient ==
    /\ \E catalog \in RenderCatalogs, region \in Regions,
          projectID \in {""} \cup ProjectIDs :
        render' = [catalog |-> catalog, region |-> region, projectID |-> projectID,
                   sc |-> BuildServiceClient(NewProviderClient("project", "p1"),
                                             catalog, region, projectID)]
    /\ UNCHANGED <<c, RegionProjectIDMap>>
    /\ UNCHANGED setupVars
    /\ UNCHANGED threadVars

RenderNext == RenderServiceClient

RenderSpec == RenderInit /\ [][RenderNext]_vars

\* ---------------------------------------------------------------- properties

\* The credential combinations the claims speak of.
TokenSet == c.Token # ""
KeyPairSet == c.AccessKey # "" /\ c.SecretKey # ""
PasswordWithUser == c.Password # "" /\ (c.Username # "" \/ c.UserID # "")
NoClientBuilt ==
    /\ HwClient = NilPtr
    /\ DomainClient = NilPtr
    /\ s3sess = Nil
    /\ builder = <<>>
    /\ netlog = <<>>

\* C1: with MaxRetries >= 0, LoadAndValidate invokes at most one strategy
\* builder, and it is the highest-priority applicable one: token if Token is
\* set, else key pair if both keys are set, else password if Password and a
\* user name or user ID are set; otherwise none.
C1_StrategyPriority ==
    /\ Len(builder) <= 1
    /\ (pc # "start" /\ c.MaxRetries >= 0) =>
         builder = (IF TokenSet THEN <<"token">>
                    ELSE IF KeyPairSet THEN <<"aksk">>
                    ELSE IF PasswordWithUser THEN <<"password">>
                    ELSE <<>>)

\* C1 witness: the key-pair builder ran although password auth was applicable too.
C1_Witness ==
    /\ builder = <<"aksk">>
    /\ PasswordWithUser
    /\ pc # "start"

\* C2 as stated: whenever none of the three credential sets is fully
\* specified, setup fails with the "must config token or aksk or username
\* password" error and builds no client.
C2_Original ==
    (pc # "start" /\ ~TokenSet /\ ~KeyPairSet /\ ~PasswordWithUser) =>
        (pc = "failed" /\ err = ErrNoAuth /\ NoClientBuilt)

\* C2 amended: whenever none of the three credential sets is fully specified,
\* setup fails and builds no client; the error is the max_retries error when
\* MaxRetries < 0, else the user_name/user_id error when Password is set, else
\* the "must config token or aksk or username password" error.
C2_NoAuthFails ==
    (pc # "start" /\ ~TokenSet /\ ~KeyPairSet /\ ~PasswordWithUser) =>
        /\ pc = "failed"
        /\ handle = Nil
        /\ NoClientBuilt
        /\ err = (IF c.MaxRetries < 0 THEN ErrMaxRetries
                  ELSE IF c.Password # "" THEN ErrPasswordUser
                  ELSE ErrNoAuth)

\* C2 witness: only one key of the pair set, and setup failed for want of a method.
C2_Witness ==
    /\ pc = "failed"
    /\ err = ErrNoAuth
    /\ c.AccessKey # "" /\ c.SecretKey = ""
    /\ NoClientBuilt

\* C3: with MaxRetries < 0, setup fails with the max_retries validation error
\* whatever credentials are set; no builder runs, no network call is made and
\* HwClient, DomainClient and the S3 session stay unset.
C3_NegativeRetriesRejected ==
    (c.MaxRetries < 0) =>
        /\ NoClientBuilt
        /\ pc \in {"start", "failed"}
        /\ pc = "failed" => (err = ErrMaxRetries /\ handle = Nil)

\* C3 witness: a negative retry count rejected with a token configured.
C3_Witness ==
    /\ c.MaxRetries < 0
    /\ TokenSet
    /\ pc = "failed"
    /\ err = ErrMaxRetries

\* C4: when the password branch is the one taken (no token, key pair not
\* complete, Password set) and Username and UserID are both empty, setup fails
\* with a validation error and makes no network call.
C4_PasswordNeedsUser ==
    (pc # "start" /\ ~TokenSet /\ ~KeyPairSet /\ c.Password # ""
       /\ c.Username = "" /\ c.UserID = "") =>
        /\ pc = "failed"
        /\ err = (IF c.MaxRetries < 0 THEN ErrMaxRetries ELSE ErrPasswordUser)
        /\ netlog = <<>>
        /\ NoClientBuilt

\* C4 witness: the user_name/user_id validation error was returned.
C4_Witness ==
    /\ pc = "failed"
    /\ err = ErrPasswordUser
    /\ c.Password # ""
    /\ netlog = <<>>

\* Project-scope authentication succeeded and domain-scope authentication was
\* attempted and failed.
DomainAuthFailed ==
    /\ netlog = <<"authProject", "authDomain">>
    /\ DomainClient = NilPtr

\* C5 as stated: when project-scope authentication succeeds and domain-scope
\* authentication fails, setup still succeeds: no error, HwClient set,
\* DomainClient absent.
C5_Original ==
    DomainAuthFailed => (pc # "failed" /\ err = Nil /\ HwClient # NilPtr)

\* C5 amended: when project-scope authentication succeeds and domain-scope
\* authentication fails, LoadAndValidate returns the domain-scope
\* authentication error and configureProvider fails with it (no handle, cache
\* not seeded); HwClient has been set and DomainClient is left absent.
C5_DomainFailureFatal ==
    DomainAuthFailed =>
        /\ pc = "failed"
        /\ err = ErrAuthDomain
        /\ handle = Nil
        /\ HwClient # NilPtr
        /\ RegionProjectIDMap = <<>>

\* C5 witness: the domain-scoped authentication failed after the project-scoped one passed.
C5_Witness ==
    /\ DomainAuthFailed
    /\ HwClient # NilPtr
    /\ pc = "failed"

\* C6: project-scope authentication is attempted before domain-scope
\* authentication; when it fails, setup fails with that error, HwClient and
\* DomainClient stay unset and domain-scope authentication is never attempted.
C6_ProjectAuthFirst ==
    /\ netlog \in {<<>>, <<"authProject">>, <<"authProject", "authDomain">>}
    /\ (netlog # <<>> /\ HwClient = NilPtr) =>
         /\ pc = "failed"
         /\ err = ErrAuthProject
         /\ netlog = <<"authProject">>
         /\ DomainClient = NilPtr
    /\ "authDomain" \in {netlog[i] : i \in DOMAIN netlog} => HwClient # NilPtr

\* C6 witness: the project-scoped authentication was attempted and failed.
C6_Witness ==
    /\ netlog = <<"authProject">>
    /\ HwClient = NilPtr
    /\ err = ErrAuthProject

\* C7: whenever LoadAndValidate returns an error, configureProvider returns
\* that error and no handle, the cache is never seeded and no service client
\* is ever requested from the configuration.
C7_NoPartialProvider ==
    /\ (err # Nil) <=> (pc = "failed")
    /\ (err # Nil) =>
         /\ handle = Nil
         /\ RegionProjectIDMap = <<>>
         /\ ncalls = 0
         /\ \A t \in Threads : tpc[t] = "idle"
    /\ (handle # Nil) => (pc = "ready" /\ err = Nil)

\* C7 witness: setup failed at its last step, with both clients already built.
C7_Witness ==
    /\ pc = "failed"
    /\ err = ErrS3
    /\ HwClient # NilPtr /\ HwClient.ProjectID # ""
    /\ DomainClient # NilPtr

\* The last return came from a call that sent the project listing and got
\* this answer.
LastAnswered == last.resp # NilPtr

C9_NoNegativeCaching ==
    /\ [](  (LastAnswered /\ last.resp.err = Nil /\ last.resp.all = <<>>) =>
            /\ last.err = ErrNoProject
            /\ last.sc = NilPtr
            /\ last.region \notin DOMAIN RegionProjectIDMap)
    /\ [][\A t \in Threads :
            (tpc[t] = "query" /\ tpc'[t] = "idle" /\ last'.err = ErrNoProject) =>
                RegionProjectIDMap' = RegionProjectIDMap]_vars
    /\ [][\A t \in Threads :
            (tpc[t] = "lock" /\ tpc'[t] # "lock"
               /\ targ[t].region \notin DOMAIN RegionProjectIDMap) =>
                /\ tpc'[t] = "query"
                /\ queries'[targ[t].region] = queries[targ[t].region] + 1]_vars

\* C9 witness: a second listing for the same region, again answered empty.
C9_Witness ==
    /\ LastAnswered
    /\ last.err = ErrNoProject
    /\ queries[last.region] = 2
    /\ last.region \notin DOMAIN RegionProjectIDMap

\* C10 as stated: when the selected strategy is token or password, a call for
\* a catalogued service and a region other than the provider's fails with the
\* region-mismatch error and sends no listing for that region.
C10_RegionMismatchRejected ==
    (builder \in {<<"token">>, <<"password">>}) =>
        /\ \A r \in Regions \ {c.Region} : queries[r] = 0
        /\ (last.t # 0 /\ last.region # c.Region
              /\ ~CatalogInvalid(allServiceCatalog(last.srv))) =>
             (last.err = ErrRegion /\ ~LastAnswered)

\* The catalog has no usable entry under this name.
UnknownService(srv) ==
    allServiceCatalog(srv).Name = "" \/ allServiceCatalog(srv).Version = ""

\* The last return came from a call for a catalogued service.
LastKnownService == ~UnknownService(last.srv)

\* C11: under key-pair authentication, a call for a catalogued service and a
\* region other than the provider's succeeds whenever the region is
\* resolvable (found in the cache, or the listing answers with at least one
\* project), and the returned client signs for the requested region.
C11_KeyPairOtherRegion ==
    (builder = <<"aksk">> /\ last.t # 0 /\ last.region # c.Region /\ LastKnownService
       /\ (~LastAnswered \/ (last.resp.err = Nil /\ Len(last.resp.all) >= 1))) =>
        /\ last.err = Nil
        /\ last.sc # NilPtr
        /\ last.sc.ProviderClient.AKSKAuthOptions.Region = last.region
        /\ last.sc.ProviderClient.AKSKAuthOptions.AccessKey = c.AccessKey

\* C11 witness: a key-pair client for the other region, resolved by a listing.
C11_Witness ==
    /\ builder = <<"aksk">>
    /\ last.region = "r2" /\ c.Region = "r1"
    /\ LastAnswered
    /\ last.err = Nil
    /\ last.sc.ProviderClient.AKSKAuthOptions.Region = "r2"

\* C12: a call naming a service absent from the catalog returns the "must
\* specify the service name and api version" error without crashing, never
\* waits for the lock, sends no listing and leaves the cache as it was.
C12_UnknownService ==
    /\ []((last.t # 0 /\ UnknownService(last.srv)) =>
            (last.err = ErrService /\ last.sc = NilPtr /\ ~LastAnswered /\ ~crashed))
    /\ [](\A t \in Threads : tpc[t] # "idle" => ~UnknownService(targ[t].srv))
    /\ [][(ncalls' = ncalls + 1 /\ tpc' = tpc /\ UnknownService(last'.srv)) =>
            (RegionProjectIDMap' = RegionProjectIDMap /\ queries' = queries
               /\ RPLock' = RPLock /\ crashed' = crashed)]_vars

\* C12 witness: an unknown service was refused while another call held the lock.
C12_Witness ==
    /\ last.srv = "nosuch"
    /\ last.err = ErrService
    /\ \E t \in Threads : tpc[t] = "query" /\ RPLock = t

\* C13: the endpoint of a built client is https://{name}.{cloud}/ exactly
\* when the entry's scope is global and RegionClient is off, and
\* https://{name}.{region}.{cloud}/ in every other case.
C13_EndpointForm ==
    render # NoRender =>
        LET e == render.sc.Endpoint
            name == render.catalog.Name
            global == render.catalog.Scope = "global" /\ ~c.RegionClient
        IN /\ global => e = <<"https://", name, ".", c.Cloud, "/">>
           /\ ~global => e = <<"https://", name, ".", render.region, ".", c.Cloud, "/">>

\* C13 witness: a global entry rendered with RegionClient on keeps the region.
C13_Witness ==
    /\ render # NoRender
    /\ render.catalog.Scope = "global"
    /\ c.RegionClient
    /\ render.sc.Endpoint[4] = render.region

\* C14: the resource base is the endpoint followed by the version segment,
\* then the project-ID segment if and only if the entry is not flagged
\* WithOutProjectID, then the fixed suffix if and only if it is non-empty,
\* each segment closed by "/", in that order.
C14_ResourceBaseForm ==
    render # NoRender =>
        LET rb == render.sc.ResourceBase
            n == Len(render.sc.Endpoint)
            hasPID == ~render.catalog.WithOutProjectID
            hasBase == render.catalog.ResourceBase # ""
            k == IF hasPID THEN n + 4 ELSE n + 2
        IN /\ SubSeq(rb, 1, n) = render.sc.Endpoint
           /\ Len(rb) = k + (IF hasBase THEN 2 ELSE 0)
           /\ rb[n + 1] = render.catalog.Version /\ rb[n + 2] = "/"
           /\ hasPID => (rb[n + 3] = render.projectID /\ rb[n + 4] = "/")
           /\ hasBase => (rb[k + 1] = render.catalog.ResourceBase /\ rb[k + 2] = "/")

\* C14 witness: an entry with both a project-ID segment and a fixed suffix.
C14_Witness ==
    /\ render # NoRender
    /\ ~render.catalog.WithOutProjectID
    /\ render.catalog.ResourceBase = "os-keypairs"
    /\ render.projectID = "p2"
    /\ Len(render.sc.ResourceBase) = Len(render.sc.Endpoint) + 6

\* C15 as stated: every write to RegionProjectIDMap, by any operation, is
\* made while RPLock is held.
C15_Original ==
    [][RegionProjectIDMap' # RegionProjectIDMap => RPLock # Unlocked]_vars

\* C15: every write to RegionProjectIDMap made by a NewServiceClient call is
\* made by the thread that holds RPLock, inside its listing; the only other
\* write is configureProvider's seeding of the provider region, made without
\* the lock before the handle is returned and before any call has started.
C15_WritesUnderLockAfterSetup ==
    [][RegionProjectIDMap' # RegionProjectIDMap =>
         \/ \E t \in Threads : RPLock = t /\ tpc[t] = "query" /\ tpc'[t] = "idle"
         \/ /\ handle = Nil /\ handle' # Nil
            /\ ncalls = 0
            /\ RPLock = Unlocked
            /\ RegionProjectIDMap = <<>>
            /\ DOMAIN RegionProjectIDMap' = {c.Region}]_vars

\* C15 witness: the map holds the seeded provider region and an entry a
\* listing stored for the other region.
C15_Witness ==
    /\ LastAnswered
    /\ last.err = Nil
    /\ last.region # c.Region
    /\ DOMAIN RegionProjectIDMap = {c.Region, last.region}
    /\ HwClient.ProjectID # ""

\* The threads whose project listing is in flight.
Querying == {t \in Threads : tpc[t] = "query"}

\* C16: at most one project-listing query is in flight at any time, whatever
\* the regions asked for, and the thread it belongs to holds RPLock.
C16_OneQueryInFlight ==
    /\ Cardinality(Querying) <= 1
    /\ \A t \in Threads : tpc[t] = "query" <=> RPLock = t

\* C16 witness: one listing in flight while another thread, asking for a
\* different region, waits for the lock.
C16_Witness ==
    \E t, u \in Threads :
        /\ tpc[t] = "query" /\ RPLock = t
        /\ tpc[u] = "lock"
        /\ targ[u].region # targ[t].region

\* configureProvider stored the provider region's project ID itself.
Seeded(r) == r = c.Region /\ HwClient # NilPtr /\ HwClient.ProjectID # ""

\* C17: with an identity service that answers each listing with the region's
\* project, concurrent calls for distinct unresolved regions issue exactly one
\* listing per region, all succeed, no waiter is left behind a lock nobody
\* will release, and the cache ends with every region asked for mapped to
\* the project ID its own listing returned.
C17_DistinctRegions ==
    /\ [](\A r \in Regions :
            /\ queries[r] <= 1
            /\ r \in DOMAIN RegionProjectIDMap => (queries[r] = 1 \/ Seeded(r)))
    /\ []((last.t # 0 /\ LastKnownService /\ last.err # ErrRegion) =>
            (last.err = Nil /\ last.region \in DOMAIN RegionProjectIDMap))
    /\ [](LastAnswered =>
            (/\ RegionProjectIDMap[last.region] = last.resp.all[1].ID
             /\ last.sc.ProviderClient.ProjectID = last.resp.all[1].ID))
    /\ [][\A r \in DOMAIN RegionProjectIDMap :
            r \in DOMAIN RegionProjectIDMap'
              /\ RegionProjectIDMap'[r] = RegionProjectIDMap[r]]_vars
    /\ []((Querying = {} /\ \A r \in Regions : queries[r] = 1) =>
            DOMAIN RegionProjectIDMap = Regions)
    /\ [](\A t \in Threads : tpc[t] = "lock" =>
            (RPLock = Unlocked \/ \E u \in Threads : tpc[u] = "query" /\ RPLock = u))

\* C17 witness: both regions were unresolved after setup, each was listed
\* once, and the cache holds a different project ID for each.
C17_Witness ==
    /\ HwClient # NilPtr /\ HwClient.ProjectID = ""
    /\ \A r \in Regions : queries[r] = 1
    /\ DOMAIN RegionProjectIDMap = Regions
    /\ RegionProjectIDMap["r1"] # RegionProjectIDMap["r2"]
    /\ \A t \in Threads : tpc[t] = "idle"
    /\ last.err = Nil

\* C18: when the first listing for a region succeeds, no second listing is
\* ever issued for it: a caller that was waiting for the lock, or that calls
\* later, finds the entry and returns the cached project ID without a query.
C18_SameRegion ==
    /\ [](\A r \in Regions :
            queries[r] = 0
              \/ (queries[r] = 1
                    /\ (r \in DOMAIN RegionProjectIDMap
                          \/ \E t \in Querying : targ[t].region = r)))
    /\ [][\A t \in Threads :
            (tpc[t] = "lock" /\ tpc'[t] # "lock" /\ queries[targ[t].region] = 1) =>
                /\ tpc'[t] = "idle"
                /\ queries' = queries
                /\ last'.t = t /\ last'.region = targ[t].region
                /\ last'.err = Nil /\ last'.resp = NilPtr
                /\ last'.sc.ProviderClient.ProjectID
                     = RegionProjectIDMap[targ[t].region]]_vars

\* C18 witness: a call for a region that setup had left unresolved returned
\* from the cache, one listing having been issued for the region.
C18_Witness ==
    /\ last.t # 0 /\ ~LastAnswered /\ last.err = Nil
    /\ ~Seeded(last.region)
    /\ queries[last.region] = 1

\* C19: once RegionProjectIDMap holds an entry for a region, no step removes
\* the entry or changes its project ID, whatever names the listing returns.
C19_EntriesNeverChange ==
    [][\A r \in Regions :
         r \in DOMAIN RegionProjectIDMap =>
            (r \in DOMAIN RegionProjectIDMap'
               /\ RegionProjectIDMap'[r] = RegionProjectIDMap[r])]_vars

\* The errors a NewServiceClient call can return.
ValidationErrors == {ErrService, ErrRegion}
ResolutionErrors == {ErrListProjects, ErrExtractProjects, ErrNoProject}

\* C20: a failing NewServiceClient call, whether refused by validation or
\* failed by its listing (transport/API error, extraction error, no project),
\* hands the error to its own caller, leaves RegionProjectIDMap as it was,
\* leaves the lock free and the other threads where they were; afterwards a
\* call for a resolved region still returns from the cache, and a listing
\* answered with a project still succeeds.
C20_FailureIsLocal ==
    /\ [][(ncalls' = ncalls + 1 /\ tpc' = tpc) =>
            (/\ last'.err \in ValidationErrors /\ last'.sc = NilPtr
             /\ tpc[last'.t] = "idle"
             /\ RegionProjectIDMap' = RegionProjectIDMap
             /\ RPLock' = RPLock /\ queries' = queries /\ crashed' = crashed)]_vars
    /\ [][\A t \in Threads :
            (tpc[t] = "query" /\ tpc'[t] = "idle" /\ last'.err # Nil) =>
                /\ last'.t = t /\ last'.sc = NilPtr
                /\ last'.err \in ResolutionErrors
                /\ last'.resp.err # Nil => last'.err \in {ErrListProjects, ErrExtractProjects}
                /\ last'.resp.err = Nil => last'.err = ErrNoProject
                /\ RegionProjectIDMap' = RegionProjectIDMap
                /\ RPLock' = Unlocked
                /\ crashed' = crashed
                /\ \A u \in Threads \ {t} : tpc'[u] = tpc[u] /\ targ'[u] = targ[u]]_vars
    /\ [][\A t \in Threads :
            (tpc[t] = "lock" /\ tpc'[t] # "lock"
               /\ targ[t].region \in DOMAIN RegionProjectIDMap) =>
                (tpc'[t] = "idle" /\ last'.t = t /\ last'.err = Nil
                   /\ last'.sc # NilPtr)]_vars
    /\ [][\A t \in Threads :
            (tpc[t] = "query" /\ tpc'[t] = "idle"
               /\ last'.resp.err = Nil /\ Len(last'.resp.all) >= 1) =>
                (last'.t = t /\ last'.err = Nil /\ last'.sc # NilPtr)]_vars
    /\ [](Querying = {} => RPLock = Unlocked)
    /\ [](~crashed)

\* C20 witness: a listing failed for one region while the cache held another
\* region's entry and another thread was waiting for the lock.
C20_Witness ==
    /\ LastAnswered
    /\ last.err \in ResolutionErrors
    /\ last.region \notin DOMAIN RegionProjectIDMap
    /\ RegionProjectIDMap # <<>>
    /\ RPLock = Unlocked
    /\ \E u \in Threads : tpc[u] = "lock"

\* C21: once setup has returned, no NewServiceClient step changes HwClient or
\* DomainClient; the project and region overrides are found on the returned
\* clone only, which otherwise equals the base client it was copied from.
C21_BaseClientsUntouched ==
    /\ [][pc = "ready" => (HwClient' = HwClient /\ DomainClient' = DomainClient)]_vars
    /\ []((last.t # 0 /\ last.err = Nil) =>
            LET base == BaseClient(last.srv)
                clone == last.sc.ProviderClient
            IN /\ clone.Scope = base.Scope
               /\ clone.AKSKAuthOptions.AccessKey = base.AKSKAuthOptions.AccessKey
               /\ clone.AKSKAuthOptions.Region = last.region
               /\ clone.AKSKAuthOptions.ProjectId = clone.ProjectID
               /\ base.AKSKAuthOptions.Region = ""
               /\ base.AKSKAuthOptions.ProjectId = "")

\* C21 witness: a clone carries a project ID and a signing region that the
\* base client it came from does not.
C21_Witness ==
    /\ last.t # 0 /\ last.err = Nil /\ LastAnswered
    /\ last.sc.ProviderClient.ProjectID # ""
    /\ last.sc.ProviderClient.ProjectID # BaseClient(last.srv).ProjectID
    /\ last.sc.ProviderClient.AKSKAuthOptions.Region # BaseClient(last.srv).AKSKAuthOptions.Region

\* The tenant/project scoping an option set carries: TenantID and TenantName,
\* which the key-pair option set calls ProjectId and ProjectName.
TenantScope(ao) ==
    IF builder = <<"aksk">> THEN <<ao.ProjectId, ao.ProjectName>>
    ELSE <<ao.TenantID, ao.TenantName>>

\* The domain identifiers of the domain-scoped option set.
DomainIdentifiers(ao) ==
    IF builder = <<"aksk">> THEN <<ao.DomainID, ao.Domain>>
    ELSE <<ao.DomainID, ao.DomainName>>

\* C22: whichever builder ran, with both agency options set both option sets
\* carry the agency name and agency domain name and no tenant scoping, and
\* only the project-scoped set carries the delegated project; with either
\* agency option empty the project-scoped set carries the tenant scoping and
\* the domain-scoped set carries the domain identifiers and neither agency
\* nor tenant fields. The builder that ran is the one the credentials select,
\* whatever the agency options are.
C22_AgencyOverride ==
    builder # <<>> =>
        LET pao == authOptions.pao
            dao == authOptions.dao
        IN /\ builder = <<SelectStrategy([c EXCEPT !.AgencyName = "",
                                                   !.AgencyDomainName = ""])>>
           /\ (c.AgencyName # "" /\ c.AgencyDomainName # "") =>
                /\ pao.AgencyName = c.AgencyName /\ dao.AgencyName = c.AgencyName
                /\ pao.AgencyDomainName = c.AgencyDomainName
                /\ dao.AgencyDomainName = c.AgencyDomainName
                /\ TenantScope(pao) = <<"", "">> /\ TenantScope(dao) = <<"", "">>
                /\ pao.DelegatedProject = c.DelegatedProject
                /\ dao.DelegatedProject = ""
           /\ (c.AgencyName = "" \/ c.AgencyDomainName = "") =>
                /\ TenantScope(pao) = <<c.TenantID, c.TenantName>>
                /\ TenantScope(dao) = <<"", "">>
                /\ DomainIdentifiers(dao) = <<c.DomainID, c.DomainName>>
                /\ pao.AgencyName = "" /\ dao.AgencyName = ""
                /\ pao.AgencyDomainName = "" /\ dao.AgencyDomainName = ""
                /\ pao.DelegatedProject = "" /\ dao.DelegatedProject = ""

\* C22 witness: setup completed under key-pair authentication with both
\* agency options set.
C22_Witness ==
    /\ pc = "ready"
    /\ builder = <<"aksk">>
    /\ c.AgencyName # "" /\ c.AgencyDomainName # ""
    /\ authOptions.pao.DelegatedProject = "dproj"
    /\ authOptions.dao.AgencyName = "agency"

\* The first genClient call of setup has returned.
GenClientRan == builder # <<>> /\ pc # "genClientProject"

ReadErrors == {ErrReadCACert, ErrReadClientCert, ErrReadClientKey}

\* C23 as stated: whenever any configured certificate path cannot be read,
\* setup fails with a file-read error before authentication is attempted.
C23_Original ==
    (unreadable # {} /\ GenClientRan /\ err # ErrNewClient) =>
        (pc = "failed" /\ err \in ReadErrors /\ netlog = <<>>)

\* generateTLSConfig reads a path that cannot be read.
ReadFails ==
    \/ c.CACertFile # "" /\ c.CACertFile \in unreadable
    \/ /\ c.ClientCertFile # "" /\ c.ClientKeyFile # ""
       /\ (c.ClientCertFile \in unreadable \/ c.ClientKeyFile \in unreadable)

\* C23: setup fails with a file-read error, before any authentication request,
\* whenever the configured CA certificate cannot be read, or a client
\* certificate and a client key are both configured and either cannot be
\* read; a file-read error has no other cause.
C23_UnreadableMaterialFatal ==
    /\ (ReadFails /\ GenClientRan /\ err # ErrNewClient) =>
          (/\ pc = "failed" /\ err \in ReadErrors
           /\ netlog = <<>>
           /\ handle = Nil /\ HwClient = NilPtr /\ DomainClient = NilPtr)
    /\ err \in ReadErrors => (ReadFails /\ handle = Nil)

\* C23 witness: the client key could not be read, the client certificate
\* could, and setup failed without an authentication request.
C23_Witness ==
    /\ err = ErrReadClientKey
    /\ c.ClientCertFile \notin unreadable
    /\ pc = "failed"
    /\ netlog = <<>>

\* C24 as stated: an error raised by the project listing is returned to the
\* caller as the same error value.
C24_Original ==
    (LastAnswered /\ last.resp.err # Nil) => last.err = last.resp.err

\* C24: an error raised by the project listing comes back to the caller as a
\* new error whose text is "List projects failed, err=" (for an extraction
\* error "Extract projects failed, err=") followed by the text of the
\* identity error; the call returns at once, without a second listing.
C24_ListingErrorWrapped ==
    /\ []((LastAnswered /\ last.resp.err # Nil) =>
            /\ last.sc = NilPtr
            /\ last.resp.from = "AllPages" =>
                 last.err = "List projects failed, err=" \o last.resp.err
            /\ last.resp.from = "ExtractProjects" =>
                 last.err = "Extract projects failed, err=" \o last.resp.err)
    /\ [][\A t \in Threads :
            (tpc[t] = "query" /\ tpc'[t] # "query") =>
                (tpc'[t] = "idle" /\ last'.t = t /\ queries' = queries)]_vars

\* C24 witness: a listing failed in transport and the call returned.
C24_Witness ==
    /\ LastAnswered
    /\ last.resp.err = ErrTransport
    /\ last.err # Nil
    /\ queries[last.region] >= 1

\* C25: a call that has passed validation reads the cache only after taking
\* RPLock, hit or miss: while one caller's listing is in flight no other
\* caller leaves the lock wait, not even for a region already cached, and no
\* client is returned to anyone but the caller whose listing it was.
C25_HitsTakeTheLock ==
    /\ [][\A u \in Threads :
            (tpc[u] = "lock" /\ tpc'[u] # "lock") =>
                (Querying = {} /\ RPLock = Unlocked)]_vars
    /\ [][\A t \in Querying :
            (last' # last /\ last'.sc # NilPtr) =>
                (last'.t = t /\ tpc'[t] = "idle" /\ RPLock' = Unlocked)]_vars

\* C25 witness: a caller for an already-cached region waits for the lock
\* while another caller's listing for a different region is in flight.
C25_Witness ==
    \E t, u \in Threads :
        /\ tpc[t] = "query" /\ RPLock = t
        /\ tpc[u] = "lock"
        /\ targ[u].region \in DOMAIN RegionProjectIDMap
        /\ targ[t].region \notin DOMAIN RegionProjectIDMap

\* C26: RPLock is released on every return path: the step in which the
\* holder returns, with a client or with a resolver error, frees the lock,
\* and the lock is free whenever no call is in progress. With listings that
\* eventually answer and a fair lock, every call in progress eventually
\* returns.
C26_LockReleasedAndCallsReturn ==
    /\ []((\A t \in Threads : tpc[t] = "idle") => RPLock = Unlocked)
    /\ [][\A t \in Threads :
            (RPLock = t /\ tpc'[t] = "idle") => RPLock' = Unlocked]_vars
    /\ \A t \in Threads : (tpc[t] # "idle") ~> (tpc[t] = "idle")

\* C26 witness: every call has returned, the last one with a resolver error
\* after an earlier listing had succeeded, and the lock is free.
C26_Witness ==
    /\ \A t \in Threads : tpc[t] = "idle"
    /\ LastAnswered /\ last.err \in ResolutionErrors
    /\ \E r \in Regions : queries[r] >= 1 /\ r \in DOMAIN RegionProjectIDMap
    /\ RPLock = Unlocked

\* The region check as the code's condition reads.
RegionRefused(region) == region # c.Region /\ (c.AccessKey = "" \/ c.SecretKey = "")

\* C27: validation runs before the lock, catalog check first: an unknown
\* service returns the service error whatever the region, the region error is
\* only returned for a catalogued service, a call refused by validation
\* returns in the step it was made without touching the lock or sending a
\* listing, and it can do so while another caller's listing is in flight;
\* only calls that passed validation wait for or hold the lock; and the
\* listings sent never outnumber the calls made.
C27_ValidationBeforeLock ==
    /\ []((last.t # 0 /\ UnknownService(last.srv)) => last.err = ErrService)
    /\ [](last.err = ErrRegion => (~UnknownService(last.srv) /\ RegionRefused(last.region)))
    /\ [](\A t \in Threads :
            tpc[t] # "idle" =>
                (~UnknownService(targ[t].srv) /\ ~RegionRefused(targ[t].region)))
    /\ [][(ncalls' = ncalls + 1 /\ tpc' = tpc) =>
            (last'.err \in ValidationErrors /\ ~LastAnswered'
               /\ RPLock' = RPLock /\ queries' = queries)]_vars
    /\ [](\A u \in Threads :
            (tpc[u] = "idle" /\ Querying # {} /\ ncalls < MaxCalls) =>
                ENABLED (NewServiceClient(u) /\ tpc' = tpc))
    /\ [](queries["r1"] + queries["r2"] <= ncalls)
    /\ [][\A t \in Threads : tpc[t] = "query" => tpc'[t] \in {"query", "idle"}]_vars

\* C27 witness: the region error was returned for a call made under token or
\* password authentication while a listing is in flight.
C27_Witness ==
    /\ last.err = ErrRegion
    /\ Querying # {}
    /\ last.t \notin Querying
    /\ ncalls >= 2

\* C28: after a successful setup whose project-scoped client carries a
\* project ID, the cache maps the provider region to it from the start and no
\* listing is ever sent for the provider region; after a successful setup
\* whose client carries no project ID the cache starts empty, and the first
\* call for the provider region to reach the lookup sends a listing.
C28_SeededRegionNeverQueried ==
    /\ []((pc = "ready" /\ HwClient.ProjectID # "") =>
            (/\ c.Region \in DOMAIN RegionProjectIDMap
             /\ queries[c.Region] = 0
             /\ ncalls = 0 => RegionProjectIDMap = (c.Region :> HwClient.ProjectID)))
    /\ []((pc = "ready" /\ HwClient.ProjectID = "" /\ ncalls = 0) =>
            RegionProjectIDMap = <<>>)
    /\ [][\A t \in Threads :
            (/\ tpc[t] = "lock" /\ tpc'[t] # "lock"
             /\ targ[t].region = c.Region
             /\ HwClient.ProjectID = ""
             /\ queries[c.Region] = 0) =>
                (tpc'[t] = "query" /\ queries'[c.Region] = 1)]_vars

\* C29: on every configuration whose setup succeeded, under any of the three
\* strategies, HwClient and DomainClient are both present, a handle exists
\* only then, and no call waits for the lock, lists projects or clones with
\* an absent base client: the process never dereferences a nil client.
C29_BothClientsPresent ==
    /\ pc = "ready" =>
          (/\ HwClient # NilPtr /\ DomainClient # NilPtr
           /\ HwClient.Scope = "project" /\ DomainClient.Scope = "domain"
           /\ builder \in {<<"token">>, <<"aksk">>, <<"password">>})
    /\ handle # Nil => pc = "ready"
    /\ \A t \in Threads : tpc[t] # "idle" => BaseClient(targ[t].srv) # NilPtr
    /\ (last.t # 0 /\ last.err = Nil) =>
          last.sc.ProviderClient.Scope =
             (IF allServiceCatalog(last.srv).Admin THEN "domain" ELSE "project")
    /\ ~crashed

\* C29 witness: under password authentication a client for the admin-flagged
\* identity service was cloned from DomainClient.
C29_Witness ==
    /\ pc = "ready"
    /\ builder = <<"password">>
    /\ last.srv = "iam" /\ last.err = Nil
    /\ last.sc.ProviderClient.Scope = "domain"

\* C30: when a call returns a client for a region, the cache holds an entry
\* for that region and the client's project ID and signing project ID equal
\* that entry and are not empty, whatever projects the listing returned.
C30_ReturnedProjectIsCached ==
    [][\A t \in Threads :
         (tpc[t] # "idle" /\ tpc'[t] = "idle" /\ last'.err = Nil) =>
            /\ targ[t].region \in DOMAIN RegionProjectIDMap'
            /\ last'.sc.ProviderClient.ProjectID = RegionProjectIDMap'[targ[t].region]
            /\ last'.sc.ProviderClient.AKSKAuthOptions.ProjectId
                 = RegionProjectIDMap'[targ[t].region]
            /\ last'.sc.ProviderClient.ProjectID # ""]_vars

====
